---- MODULE Spec2Model ----
(***************************************************************************)
(* Model of the metric normalizer of MAD-Mining-Anomaly-Detector:          *)
(*   backend/validate_models.py  safe_round      (lines 57-106)            *)
(*   backend/quick_debug.py      safe_round_v2   (lines 66-106)            *)
(*                                                                         *)
(* Floats are modelled as exact rationals num / (den * Scale): a finite    *)
(* float is [cls |-> "fin", num, den], the three non-finite IEEE values    *)
(* are the classes "nan", "inf" and "ninf".  Python objects are records    *)
(* tagged by `kind`.  A call either returns a Python object or raises an   *)
(* exception, which is the record Raise(exc).                              *)
(***************************************************************************)
EXTENDS Integers, Sequences, FiniteSets, TLC

\* one call of the normalizer and its re-application
VARIABLES value, decimals, defaulted, impl, result, result2, pc
\* concurrent calls of safe_round on one shared argument object
VARIABLES shared, shared0, tdec, tpc, tres
\* validate_models.main: the loop index i, the sample image found, the
\* environment of the last iteration, what validate_model returned in it,
\* validation_results['models'], valid_models, total_size,
\* validation_results['summary'], the file written and the position
VARIABLES idx, sample_image, env, metrics, models, valid_models, total_size,
          summary, written, mpc
\* train_models.py, the unsplit branch of prepare_dataset: the files of the
\* images directory, the shuffled image list, the three counts, the
\* splits dict, the names copied into each split directory, the position
VARIABLES dir, all_images, n_images, n_train, n_val, splits, copied, spc
\* train_models.py, create_data_yaml: the dataset name, the label files of
\* labels/train, the class indices found, nc, the class names, the dict
\* written to data.yaml and the position
VARIABLES dataset_name, label_files, all_classes, nc, class_names,
          data_yaml, ypc
\* train_models.py, prepare_general_dataset: the prepared source datasets,
\* the number of entries of self.datasets visited, class_offset,
\* all_class_names, the image and label files written under
\* datasets/general, the dict written to its data.yaml and the position
VARIABLES sources, gidx, class_offset, all_class_names, general_images,
          general_labels, general_yaml, gpc

roundVars == <<value, decimals, defaulted, impl, result, result2, pc>>
concVars == <<shared, shared0, tdec, tpc, tres>>
mainVars == <<idx, sample_image, env, metrics, models, valid_models,
              total_size, summary, written, mpc>>

splitVars == <<dir, all_images, n_images, n_train, n_val, splits, copied,
               spc>>
yamlVars == <<dataset_name, label_files, all_classes, nc, class_names,
              data_yaml, ypc>>
genVars == <<sources, gidx, class_offset, all_class_names, general_images,
             general_labels, general_yaml, gpc>>
trainVars == <<splitVars, yamlVars, genVars>>

vars == <<roundVars, concVars, mainVars, trainVars>>

(***************************************************************************)
(* Bounds of the model.                                                    *)
(***************************************************************************)
\* longest array / tensor drawn as an input
MaxLen == 3
\* number of decimal places the fixed-point representation of floats keeps
DecPlaces == 6

\* default of the `decimals` parameter
DefaultDecimals == 4

Scale == 10^DecPlaces

\* the decimal literal n * 10^-k in units of 1/Scale (k <= DecPlaces)
Frac(n, k) == n * 10^(DecPlaces - k)

(***************************************************************************)
(* Floating-point values.                                                  *)
(***************************************************************************)
Fin(n) == [cls |-> "fin", num |-> n, den |-> 1]
Rat(n, d) == [cls |-> "fin", num |-> n, den |-> d]
NaN == [cls |-> "nan", num |-> 0, den |-> 1]
PosInf == [cls |-> "inf", num |-> 0, den |-> 1]
NegInf == [cls |-> "ninf", num |-> 0, den |-> 1]
Zero == Fin(0)

IsFinite(f) == f.cls = "fin"

\* Python's == on two floats: NaN equals nothing, itself included
FloatEq(a, b) ==
    IF a.cls = "nan" \/ b.cls = "nan" THEN FALSE
    ELSE IF a.cls = "fin" /\ b.cls = "fin" THEN a.num * b.den = b.num * a.den
    ELSE a.cls = b.cls

(***************************************************************************)
(* Python objects and call outcomes.                                       *)
(***************************************************************************)
PyNone == [kind |-> "none"]
PyFloatObj(f) == [kind |-> "float", f |-> f]
PyIntObj(n) == [kind |-> "int", n |-> n, huge |-> FALSE]
\* an int whose magnitude exceeds the largest double, e.g. 10**400
PyHugeInt(sign) == [kind |-> "int", n |-> sign, huge |-> TRUE]
PyBool(b) == [kind |-> "bool", b |-> b]
NpScalar(f) == [kind |-> "npscalar", f |-> f]
\* ndim = 0 is a zero-dimensional array (one element), ndim >= 1 any shape
NdArray(elems, ndim) == [kind |-> "ndarray", elems |-> elems, ndim |-> ndim]
\* itemErr: the exception class item() / float() signal for a non-scalar
\* tensor (ValueError in old torch releases, RuntimeError in current ones);
\* grad: the tensor requires grad, so numpy() raises RuntimeError
Tensor(elems, itemErr, grad) ==
    [kind |-> "tensor", elems |-> elems, itemErr |-> itemErr, grad |-> grad]
PyStr(s) == [kind |-> "str", s |-> s]
PyList(elems) == [kind |-> "list", elems |-> elems]
PyDict == [kind |-> "dict"]
PyObject == [kind |-> "object"]

Ok(v) == [tag |-> "ok", v |-> v, exc |-> "none"]
Raise(e) == [tag |-> "raise", v |-> PyNone, exc |-> e]
NoResult == [tag |-> "pending", v |-> PyNone, exc |-> "none"]

(***************************************************************************)
(* The Python and numpy primitives safe_round calls.                       *)
(***************************************************************************)
\* except (ValueError, TypeError): the only exception classes handled
Caught(e) == e \in {"ValueError", "TypeError"}

\* hasattr(value, name)
HasAttr(x, name) ==
    CASE name = "item" -> x.kind \in {"npscalar", "ndarray", "tensor"}
      [] name = "cpu" -> x.kind = "tensor"
      [] name = "numpy" -> x.kind = "tensor"
      [] OTHER -> FALSE

\* isinstance(value, np.ndarray)
IsNdArray(x) == x.kind = "ndarray"

\* isinstance(value, (int, float)); bool subclasses int, np.float64 float
IsNumber(x) == x.kind \in {"int", "float", "bool", "npscalar"}

\* value.size
Size(x) == Len(x.elems)

IsDigit(c) == c \in {"0", "1", "2", "3", "4", "5", "6", "7", "8", "9"}

DigitVal(c) ==
    CASE c = "0" -> 0 [] c = "1" -> 1 [] c = "2" -> 2 [] c = "3" -> 3
      [] c = "4" -> 4 [] c = "5" -> 5 [] c = "6" -> 6 [] c = "7" -> 7
      [] c = "8" -> 8 [] c = "9" -> 9

RECURSIVE DigitsVal(_)
\* the natural number a sequence of digits denotes
DigitsVal(cs) ==
    IF cs = <<>> THEN 0
    ELSE 10 * DigitsVal(SubSeq(cs, 1, Len(cs) - 1)) + DigitVal(cs[Len(cs)])

AllDigits(cs) == \A i \in 1..Len(cs) : IsDigit(cs[i])

\* float(str) for the grammar [+-] digits [. digits] | nan | inf; a string
\* is the sequence of its characters.  Anything else is a ValueError.
ParseFloat(cs) ==
    LET signed == cs # <<>> /\ cs[1] \in {"+", "-"}
        sign == IF signed /\ cs[1] = "-" THEN -1 ELSE 1
        body == IF signed THEN SubSeq(cs, 2, Len(cs)) ELSE cs
        dots == {i \in 1..Len(body) : body[i] = "."}
        dot == IF dots = {} THEN Len(body) + 1 ELSE CHOOSE i \in dots : TRUE
        ip == SubSeq(body, 1, dot - 1)
        fp == SubSeq(body, dot + 1, Len(body))
    IN  IF body = <<"n", "a", "n">> THEN Ok(PyFloatObj(NaN))
        ELSE IF body = <<"i", "n", "f">>
        THEN Ok(PyFloatObj(IF sign = 1 THEN PosInf ELSE NegInf))
        ELSE IF /\ Cardinality(dots) <= 1
                /\ Len(ip) + Len(fp) > 0
                /\ AllDigits(ip) /\ AllDigits(fp)
                /\ Len(fp) <= DecPlaces
        THEN Ok(PyFloatObj(Fin(sign * (DigitsVal(ip) * Scale
                                        + Frac(DigitsVal(fp), Len(fp))))))
        ELSE Raise("ValueError")

\* value.item(): the single element as a Python float
Item(x) ==
    CASE x.kind = "npscalar" -> Ok(PyFloatObj(x.f))
      [] x.kind = "ndarray" ->
            IF Size(x) = 1 THEN Ok(PyFloatObj(x.elems[1]))
            ELSE Raise("ValueError")
      [] x.kind = "tensor" ->
            IF Size(x) = 1 THEN Ok(PyFloatObj(x.elems[1]))
            ELSE Raise(x.itemErr)
      [] OTHER -> Raise("AttributeError")

\* float(x)
PyFloat(x) ==
    CASE x.kind = "float" -> Ok(x)
      [] x.kind = "npscalar" -> Ok(PyFloatObj(x.f))
      [] x.kind = "int" ->
            IF x.huge THEN Raise("OverflowError")
            ELSE Ok(PyFloatObj(Fin(x.n * Scale)))
      [] x.kind = "bool" -> Ok(PyFloatObj(Fin(IF x.b THEN Scale ELSE 0)))
      [] x.kind = "str" -> ParseFloat(x.s)
      [] x.kind = "ndarray" ->
            IF Size(x) = 1 THEN Ok(PyFloatObj(x.elems[1]))
            ELSE Raise("TypeError")
      [] x.kind = "tensor" -> Item(x)
      [] OTHER -> Raise("TypeError")

RECURSIVE SumNum(_)
\* sum of the numerators of a sequence of finite floats of denominator 1
SumNum(fs) == IF fs = <<>> THEN 0 ELSE fs[1].num + SumNum(Tail(fs))

\* np.mean(arr) as an np.float64; the mean of no element is NaN (numpy
\* warns and does not raise), inf - inf is NaN
NpMean(fs) ==
    LET has(c) == \E i \in 1..Len(fs) : fs[i].cls = c
    IN  IF fs = <<>> \/ has("nan") \/ (has("inf") /\ has("ninf"))
        THEN NpScalar(NaN)
        ELSE IF has("inf") THEN NpScalar(PosInf)
        ELSE IF has("ninf") THEN NpScalar(NegInf)
        ELSE NpScalar(Rat(SumNum(fs), Len(fs)))

\* value.cpu().numpy()
CpuNumpy(x) ==
    IF x.grad THEN Raise("RuntimeError") ELSE Ok(NdArray(x.elems, 1))

\* the integer nearest to n / d (d > 0), a tie going to the even one
RoundHalfEven(n, d) ==
    LET q == n \div d
        r == n - q * d
    IN  IF 2 * r < d THEN q
        ELSE IF 2 * r > d THEN q + 1
        ELSE IF q % 2 = 0 THEN q ELSE q + 1

\* 10^-d in units of 1/Scale (d <= DecPlaces)
Unit(d) == 10^(DecPlaces - d)

\* round(f, d) of a float with ndigits given: NaN and the infinities are
\* returned as they are
PyRound(f, d) ==
    IF ~IsFinite(f) THEN f
    ELSE Fin(RoundHalfEven(f.num, f.den * Unit(d)) * Unit(d))

\* round(float(<call>), decimals): an exception of the call or of float()
\* propagates
RoundFloat(r, d) ==
    IF r.tag = "raise" THEN r
    ELSE LET f == PyFloat(r.v)
         IN  IF f.tag = "raise" THEN f
             ELSE Ok(PyFloatObj(PyRound(f.v.f, d)))

\* a try block whose handler is `pass`: control falls through
Pass == [tag |-> "pass", v |-> PyNone, exc |-> "none"]

TryPass(r) == IF r.tag = "raise" /\ Caught(r.exc) THEN Pass ELSE r

(***************************************************************************)
(* validate_models.py: safe_round, one definition per branch.              *)
(***************************************************************************)
\* NoneBranch with the default forgotten: None is handed back
NoneBranch_none == Ok(PyNone)

\* lines 68-69: return 0.0
NoneBranch == Ok(PyFloatObj(Zero))

\* ArrayBranch as safe_round_v1 had it: item() whatever the size
ArrayBranch_v1(x, d) ==
    IF Size(x) = 0 THEN Ok(PyFloatObj(Zero)) ELSE RoundFloat(Item(x), d)

\* ArrayBranch without the test for the empty array
ArrayBranch_noempty(x, d) ==
    IF Size(x) = 1 THEN RoundFloat(Item(x), d)
    ELSE RoundFloat(Ok(NpMean(x.elems)), d)

\* ArrayBranch reading the single element as value[0], an IndexError on a
\* zero-dimensional array
ArrayBranch_idx(x, d) ==
    IF Size(x) = 0 THEN Ok(PyFloatObj(Zero))
    ELSE IF Size(x) = 1
    THEN IF x.ndim = 0 THEN Raise("IndexError")
         ELSE RoundFloat(Ok(PyFloatObj(x.elems[1])), d)
    ELSE RoundFloat(Ok(NpMean(x.elems)), d)

\* lines 72-78: the numpy array branch, outside any try block
ArrayBranch(x, d) ==
    IF Size(x) = 0 THEN Ok(PyFloatObj(Zero))
    ELSE IF Size(x) = 1 THEN RoundFloat(Item(x), d)
    ELSE RoundFloat(Ok(NpMean(x.elems)), d)

\* lines 81-85: numpy scalars and other types with .item()
ItemBranch(x, d) ==
    IF HasAttr(x, "item") THEN TryPass(RoundFloat(Item(x), d)) ELSE Pass

\* lines 88-89: regular Python numbers, outside any try block
NumberBranch(x, d) ==
    IF IsNumber(x) THEN RoundFloat(Ok(x), d) ELSE Pass

\* lines 92-100: PyTorch tensors
TensorBranch(x, d) ==
    IF HasAttr(x, "cpu") /\ HasAttr(x, "numpy")
    THEN LET arr == CpuNumpy(x)
         IN  IF arr.tag = "raise" THEN TryPass(arr)
             ELSE IF Size(arr.v) = 1 THEN TryPass(RoundFloat(Item(arr.v), d))
             ELSE TryPass(RoundFloat(Ok(NpMean(arr.v.elems)), d))
    ELSE Pass

\* Fallback whose handler names ValueError only
Fallback_valueerror(x, d) ==
    LET r == RoundFloat(Ok(x), d)
    IN  IF r.tag = "raise" /\ r.exc = "ValueError" THEN Ok(PyFloatObj(Zero))
        ELSE r

\* lines 103-106: direct conversion, 0.0 on ValueError or TypeError
Fallback(x, d) ==
    LET r == RoundFloat(Ok(x), d)
    IN  IF r.tag = "raise" /\ Caught(r.exc) THEN Ok(PyFloatObj(Zero)) ELSE r

\* the first branch of a chain that does not fall through
OrElse(r, next) == IF r.tag # "pass" THEN r ELSE next

safe_round(x, d) ==
    IF x.kind = "none" THEN NoneBranch
    ELSE IF IsNdArray(x) THEN ArrayBranch(x, d)
    ELSE OrElse(ItemBranch(x, d),
         OrElse(NumberBranch(x, d),
         OrElse(TensorBranch(x, d),
                Fallback(x, d))))

(***************************************************************************)
(* quick_debug.py: safe_round_v2, translated from its own text.            *)
(***************************************************************************)
\* quick_debug.py lines 55-64: safe_round_v1, the normalizer before arrays
\* were handled: item() outside any try block, 0.0 for everything else
safe_round_v1(x, d) ==
    IF x.kind = "none" THEN Ok(PyFloatObj(Zero))
    ELSE IF HasAttr(x, "item") THEN RoundFloat(Item(x), d)
    ELSE IF IsNumber(x) THEN RoundFloat(Ok(x), d)
    ELSE Ok(PyFloatObj(Zero))

safe_round_v2(x, d) ==
    LET zero == Ok(PyFloatObj(Zero))
        viaItem ==
            IF HasAttr(x, "item") THEN TryPass(RoundFloat(Item(x), d))
            ELSE Pass
        viaNumber == IF IsNumber(x) THEN RoundFloat(Ok(x), d) ELSE Pass
        viaTensor ==
            IF HasAttr(x, "cpu") /\ HasAttr(x, "numpy")
            THEN LET arr == CpuNumpy(x)
                 IN  IF arr.tag = "raise" THEN TryPass(arr)
                     ELSE IF Size(arr.v) = 1
                     THEN TryPass(RoundFloat(Item(arr.v), d))
                     ELSE TryPass(RoundFloat(Ok(NpMean(arr.v.elems)), d))
            ELSE Pass
        direct == RoundFloat(Ok(x), d)
    IN  IF x.kind = "none" THEN zero
        ELSE IF IsNdArray(x)
        THEN IF Size(x) = 0 THEN zero
             ELSE IF Size(x) = 1 THEN RoundFloat(Item(x), d)
             ELSE RoundFloat(Ok(NpMean(x.elems)), d)
        ELSE IF viaItem.tag # "pass" THEN viaItem
        ELSE IF viaNumber.tag # "pass" THEN viaNumber
        ELSE IF viaTensor.tag # "pass" THEN viaTensor
        ELSE IF direct.tag = "raise" /\ Caught(direct.exc) THEN zero
        ELSE direct

(***************************************************************************)
(* Inputs.                                                                 *)
(***************************************************************************)
\* values of the decimals argument the calls are made with
Decimals == {-1, 0, 2, 4}

\* finite floats: 0.95, 0.89, 0.92 (the per-class example), 0.123456,
\* 0.125 and 2.5 (exact ties at 2 and 0 digits), -0.5, 1.0
FiniteFloats ==
    {Fin(Frac(95, 2)), Fin(Frac(89, 2)), Fin(Frac(92, 2)),
     Fin(Frac(123456, 6)), Fin(Frac(125, 3)), Fin(Frac(25, 1)),
     Fin(Frac(-5, 1)), Fin(Frac(1, 0))}

Floats == FiniteFloats \cup {NaN, PosInf, NegInf}

\* elements of the arrays and tensors
Elems ==
    {Fin(Frac(95, 2)), Fin(Frac(89, 2)), Fin(Frac(92, 2)),
     Fin(Frac(125, 3)), NaN, PosInf}

SeqsUpTo(S, n) == UNION {[1..k -> S] : k \in 0..n}

Arrays ==
    {NdArray(es, 1) : es \in SeqsUpTo(Elems, MaxLen)}
        \cup {NdArray(<<e>>, nd) : e \in Elems, nd \in {0, 2}}

Tensors ==
    {Tensor(es, err, g) : es \in SeqsUpTo(Elems, MaxLen - 1),
                          err \in {"ValueError", "RuntimeError"},
                          g \in BOOLEAN}

Strings ==
    {PyStr(<<>>), PyStr(<<"a", "b", "c">>), PyStr(<<"0", ".", "9", "5">>),
     PyStr(<<"-", "2", ".", "5">>), PyStr(<<"1", ".", "2", ".", "3">>),
     PyStr(<<"n", "a", "n">>), PyStr(<<"-", "i", "n", "f">>)}

Ints == {PyIntObj(n) : n \in {-3, 0, 1}} \cup {PyHugeInt(1), PyHugeInt(-1)}

Others ==
    {PyList(<<>>), PyList(<<Fin(Frac(95, 2))>>), PyDict, PyObject}

Inputs ==
    {PyNone} \cup Arrays \cup Tensors \cup Strings \cup Ints \cup Others
        \cup {PyFloatObj(f) : f \in Floats} \cup {NpScalar(f) : f \in Floats}
        \cup {PyBool(b) : b \in BOOLEAN}

(***************************************************************************)
(* The variables of a part of the program that a specification does not    *)
(* run keep these values.                                                  *)
(***************************************************************************)
Threads == {1, 2}

RoundIdle ==
    /\ value = PyNone
    /\ decimals = DefaultDecimals
    /\ defaulted = TRUE
    /\ impl = "none"
    /\ result = NoResult
    /\ result2 = NoResult
    /\ pc = "idle"

ConcIdle ==
    /\ shared = PyNone
    /\ shared0 = PyNone
    /\ tdec = [t \in Threads |-> DefaultDecimals]
    /\ tpc = [t \in Threads |-> "idle"]
    /\ tres = [t \in Threads |-> NoResult]

Abs(n) == IF n < 0 THEN -n ELSE n

\* a dict with no key
EmptyDict == [k \in {} |-> 0]

MainIdle ==
    /\ idx = 0
    /\ sample_image = FALSE
    /\ env = EmptyDict
    /\ metrics = NoResult
    /\ models = EmptyDict
    /\ valid_models = 0
    /\ total_size = Zero
    /\ summary = EmptyDict
    /\ written = EmptyDict
    /\ mpc = "idle"

SplitIdle ==
    /\ dir = <<>>
    /\ all_images = <<>>
    /\ n_images = 0
    /\ n_train = 0
    /\ n_val = 0
    /\ splits = EmptyDict
    /\ copied = EmptyDict
    /\ spc = "idle"

YamlIdle ==
    /\ dataset_name = ""
    /\ label_files = <<>>
    /\ all_classes = {}
    /\ nc = 0
    /\ class_names = <<>>
    /\ data_yaml = EmptyDict
    /\ ypc = "idle"

GenIdle ==
    /\ sources = <<>>
    /\ gidx = 0
    /\ class_offset = 0
    /\ all_class_names = <<>>
    /\ general_images = {}
    /\ general_labels = {}
    /\ general_yaml = EmptyDict
    /\ gpc = "idle"

TrainIdle == SplitIdle /\ YamlIdle /\ GenIdle

(***************************************************************************)
(* State machine: one call of the normalizer on an input, then a second    *)
(* call on the value the first returned.                                   *)
(***************************************************************************)
Init ==
    /\ value \in Inputs
    /\ defaulted \in BOOLEAN
    /\ decimals \in (IF defaulted THEN {DefaultDecimals} ELSE Decimals)
    /\ impl = "none"
    /\ result = NoResult
    /\ result2 = NoResult
    /\ pc = "start"
    /\ ConcIdle /\ MainIdle /\ TrainIdle

Normalize(which, x, d) ==
    IF which = "safe_round" THEN safe_round(x, d) ELSE safe_round_v2(x, d)

\* validate_models.safe_round(value, decimals)
CallSafeRound ==
    /\ pc = "start"
    /\ impl' = "safe_round"
    /\ result' = safe_round(value, decimals)
    /\ pc' = IF result'.tag = "raise" THEN "raised" ELSE "returned"
    /\ UNCHANGED <<value, decimals, defaulted, result2>>
    /\ UNCHANGED <<concVars, mainVars, trainVars>>

\* quick_debug.safe_round_v2(value, decimals)
CallSafeRoundV2 ==
    /\ pc = "start"
    /\ impl' = "safe_round_v2"
    /\ result' = safe_round_v2(value, decimals)
    /\ pc' = IF result'.tag = "raise" THEN "raised" ELSE "returned"
    /\ UNCHANGED <<value, decimals, defaulted, result2>>
    /\ UNCHANGED <<concVars, mainVars, trainVars>>

\* the same normalizer applied to the value it returned
Renormalize ==
    /\ pc = "returned"
    /\ result2' = Normalize(impl, result.v, decimals)
    /\ pc' = IF result2'.tag = "raise" THEN "raised2" ELSE "renormalized"
    /\ UNCHANGED <<value, decimals, defaulted, impl, result>>
    /\ UNCHANGED <<concVars, mainVars, trainVars>>

Next == CallSafeRound \/ CallSafeRoundV2 \/ Renormalize

Spec == Init /\ [][Next]_vars

TypeOK ==
    /\ value \in Inputs
    /\ decimals \in Decimals
    /\ pc \in {"start", "returned", "raised", "renormalized", "raised2"}
    /\ result.tag \in {"pending", "ok", "raise"}

(***************************************************************************)
(* Concurrent calls.  Each thread runs safe_round branch by branch on the  *)
(* same argument object; a step yields the outcome of its branch and the   *)
(* argument object as the branch leaves it.                                *)
(***************************************************************************)
Step(r, x) == [r |-> r, obj |-> x]

\* lines 68-78: the None test and the array branch
StepEntry(x, d) ==
    Step(IF x.kind = "none" THEN NoneBranch
         ELSE IF IsNdArray(x) THEN ArrayBranch(x, d)
         ELSE Pass, x)

\* lines 81-85
StepItem(x, d) == Step(ItemBranch(x, d), x)

\* lines 88-89
StepNumber(x, d) == Step(NumberBranch(x, d), x)

\* StepTensor clearing the NaN of the array in place: the array numpy()
\* returns shares its memory with the tensor
StepTensor_inplace(x, d) ==
    LET clean == [i \in 1..Len(x.elems) |->
                    IF x.elems[i].cls = "nan" THEN Zero ELSE x.elems[i]]
        y == IF x.kind = "tensor" THEN [x EXCEPT !.elems = clean] ELSE x
    IN  Step(TensorBranch(y, d), y)

\* lines 92-100
StepTensor(x, d) == Step(TensorBranch(x, d), x)

\* lines 103-106
StepFallback(x, d) == Step(Fallback(x, d), x)

ConcInputs ==
    {PyNone, PyIntObj(1), PyHugeInt(1), PyFloatObj(NaN),
     NpScalar(Fin(Frac(123456, 6))),
     NdArray(<<Fin(Frac(95, 2)), Fin(Frac(89, 2)), Fin(Frac(92, 2))>>, 1),
     Tensor(<<Fin(Frac(125, 3))>>, "RuntimeError", FALSE),
     Tensor(<<Fin(Frac(95, 2)), Fin(Frac(89, 2))>>, "ValueError", FALSE),
     Tensor(<<Fin(Frac(95, 2)), NaN>>, "ValueError", FALSE),
     Tensor(<<Fin(Frac(95, 2)), Fin(Frac(89, 2))>>, "RuntimeError", FALSE),
     Tensor(<<Fin(Frac(95, 2)), Fin(Frac(89, 2))>>, "ValueError", TRUE),
     PyStr(<<"a", "b", "c">>), PyStr(<<"0", ".", "9", "5">>),
     PyList(<<Fin(Frac(95, 2))>>)}

InitConc ==
    /\ RoundIdle /\ MainIdle /\ TrainIdle
    /\ shared \in ConcInputs
    /\ shared0 = shared
    /\ tdec \in [Threads -> {0, 2, DefaultDecimals}]
    /\ tpc = [t \in Threads |-> "entry"]
    /\ tres = [t \in Threads |-> NoResult]

\* thread t takes the step `out`: it returns (or raises) unless the branch
\* falls through to `next`
Advance(t, out, next) ==
    /\ shared' = out.obj
    /\ IF out.r.tag = "pass"
       THEN /\ tpc' = [tpc EXCEPT ![t] = next]
            /\ tres' = tres
       ELSE /\ tpc' = [tpc EXCEPT ![t] = "done"]
            /\ tres' = [tres EXCEPT ![t] = out.r]
    /\ UNCHANGED <<shared0, tdec>>
    /\ UNCHANGED <<roundVars, mainVars, trainVars>>

ConcEntry(t) ==
    /\ tpc[t] = "entry"
    /\ Advance(t, StepEntry(shared, tdec[t]), "item")

ConcItem(t) ==
    /\ tpc[t] = "item"
    /\ Advance(t, StepItem(shared, tdec[t]), "number")

ConcNumber(t) ==
    /\ tpc[t] = "number"
    /\ Advance(t, StepNumber(shared, tdec[t]), "tensor")

ConcTensor(t) ==
    /\ tpc[t] = "tensor"
    /\ Advance(t, StepTensor(shared, tdec[t]), "fallback")

ConcFallback(t) ==
    /\ tpc[t] = "fallback"
    /\ Advance(t, StepFallback(shared, tdec[t]), "done")

NextConc ==
    \E t \in Threads :
        \/ ConcEntry(t)
        \/ ConcItem(t)
        \/ ConcNumber(t)
        \/ ConcTensor(t)
        \/ ConcFallback(t)

SpecConc == InitConc /\ [][NextConc]_vars

(***************************************************************************)
(* validate_models.py: validate_model, measure_inference_speed and main.   *)
(***************************************************************************)
\* number of entries of models_config the model runs (the file lists 7)
NumModels == 3

\* the keys of models_config in the order of the dict
ModelNames ==
    <<"coal_miner", "hydraulic_support", "large_coal", "mine_safety_helmet",
      "miner_behavior", "towline", "general">>

total_models == IF NumModels < Len(ModelNames) THEN NumModels
                ELSE Len(ModelNames)

\* models_config[name]
Config(name) ==
    [model_path |-> "/home/epsilon/work/mad/backend/models/" \o name
                    \o "_model.pt",
     dataset_path |-> "/home/epsilon/work/mad/backend/datasets/" \o name
                      \o "/data.yaml"]

RECURSIVE GCD(_, _)
GCD(a, b) == IF b = 0 THEN a ELSE GCD(b, a % b)

\* a / b of two finite floats of denominator 1, b # 0
PyDiv(a, b) ==
    LET g1 == GCD(Abs(a.num), Abs(b.num))
        an == (a.num \div g1) * (IF b.num < 0 THEN -1 ELSE 1)
        bn == Abs(b.num) \div g1
        g2 == GCD(Scale, bn)
    IN  Rat(an * (Scale \div g2), bn \div g2)

\* a > b on two floats; every comparison with NaN is false
PyGt(a, b) ==
    CASE a.cls = "nan" \/ b.cls = "nan" -> FALSE
      [] a.cls = "inf" -> b.cls # "inf"
      [] a.cls = "ninf" -> FALSE
      [] b.cls = "inf" -> FALSE
      [] b.cls = "ninf" -> TRUE
      [] OTHER -> a.num * b.den > b.num * a.den

\* the metrics object results.box of a validation run and model.names
SingleClassBox ==
    [map50 |-> NpScalar(Fin(Frac(95, 2))), map |-> NpScalar(Fin(Frac(89, 2))),
     mp |-> NpScalar(Fin(Frac(92, 2))), mr |-> NpScalar(Fin(Frac(92, 2))),
     f1 |-> NdArray(<<Fin(Frac(92, 2))>>, 1),
     map50_per_class |-> PyNone, map_per_class |-> PyNone,
     names |-> <<"miner">>]

MultiClassBox ==
    [map50 |-> NpScalar(Fin(Frac(89, 2))), map |-> NpScalar(Fin(Frac(125, 3))),
     mp |-> NpScalar(Fin(Frac(92, 2))), mr |-> NpScalar(Fin(Frac(89, 2))),
     f1 |-> NdArray(<<Fin(Frac(95, 2)), Fin(Frac(89, 2)),
                      Fin(Frac(92, 2))>>, 1),
     map50_per_class |-> NdArray(<<Fin(Frac(95, 2)), Fin(Frac(89, 2)),
                                   Fin(Frac(123456, 6))>>, 1),
     map_per_class |-> NdArray(<<Fin(Frac(125, 3)), Fin(Frac(125, 3))>>, 1),
     names |-> <<"helmet", "no_helmet">>]

\* a model that detects nothing: every metric is 0
ZeroBox ==
    [map50 |-> NpScalar(Zero), map |-> NpScalar(Zero),
     mp |-> NpScalar(Zero), mr |-> NpScalar(Zero),
     f1 |-> NdArray(<<Zero, Zero>>, 1),
     map50_per_class |-> PyNone, map_per_class |-> PyNone,
     names |-> <<"towline", "damage">>]

\* same mAP50 as SingleClassBox, the mAP of MultiClassBox
TiedBox ==
    [SingleClassBox EXCEPT !.map = NpScalar(Fin(Frac(125, 3)))]

\* f1 arrives as a multi-element tensor whose item() raises RuntimeError
TensorBox ==
    [MultiClassBox EXCEPT
        !.f1 = Tensor(<<Fin(Frac(95, 2)), Fin(Frac(89, 2))>>,
                      "RuntimeError", FALSE)]

\* what the file system and the detection library do for one model:
\* load / val / speed are "ok" or the class of the exception raised
Env(mex, dex, load, val, box, vtime, speed) ==
    [model_exists |-> mex, dataset_exists |-> dex, load |-> load,
     val |-> val, box |-> box, validation_time |-> vtime,
     size |-> Fin(Frac(625, 2)), speed |-> speed,
     avg_inference_time |-> Fin(Frac(4, 2))]

Envs ==
    {Env(FALSE, TRUE, "ok", "ok", ZeroBox, Zero, "ok"),
     Env(TRUE, FALSE, "ok", "ok", ZeroBox, Zero, "ok"),
     Env(TRUE, TRUE, "RuntimeError", "ok", ZeroBox, Zero, "ok"),
     Env(TRUE, TRUE, "ok", "FileNotFoundError", ZeroBox, Zero, "ok"),
     Env(TRUE, TRUE, "ok", "ok", TensorBox, Fin(Frac(25, 1)), "ok"),
     Env(TRUE, TRUE, "ok", "ok", SingleClassBox, Fin(Frac(25, 1)), "ok"),
     Env(TRUE, TRUE, "ok", "ok", SingleClassBox, Fin(Frac(25, 1)),
         "RuntimeError"),
     Env(TRUE, TRUE, "ok", "ok", MultiClassBox, Fin(Frac(25, 1)), "ok"),
     Env(TRUE, TRUE, "ok", "ok", MultiClassBox, Zero, "ok"),
     Env(TRUE, TRUE, "ok", "ok", ZeroBox, Fin(Frac(25, 1)), "ok"),
     Env(TRUE, TRUE, "ok", "ok", TiedBox, Fin(Frac(25, 1)), "ok")}

\* `except Exception` with only ValueError and TypeError named
IsException_narrow(exc) == exc \in {"ValueError", "TypeError"}

\* lines 164, 209: `except Exception` handles every exception class but
\* the ones that derive from BaseException alone
IsException(exc) ==
    exc \notin {"KeyboardInterrupt", "SystemExit", "GeneratorExit"}

\* len(x) of a per-class array, 0 when the attribute is None
LenOrZero(x) == IF x.kind = "none" THEN 0 ELSE Size(x)

\* lines 131-145: {model.names[i]: safe_round(per_class[i]) ...}
PerClass(names, arr) ==
    LET n == IF Size(arr) < Len(names) THEN Size(arr) ELSE Len(names)
    IN  [c \in {names[k] : k \in 1..n} |->
            LET k == CHOOSE j \in 1..n : names[j] = c
            IN  safe_round(PyFloatObj(arr.elems[k]), DefaultDecimals).v.f]

\* lines 166-176: the record of the handler
ErrorRecord(model_path, dataset_path, model_name, e, exc) ==
    [model_name |-> model_name, model_path |-> model_path,
     dataset_path |-> dataset_path, error |-> exc,
     model_size_mb |-> IF e.model_exists THEN e.size ELSE Zero,
     map50 |-> Zero, map95 |-> Zero, validation_time_seconds |-> Zero,
     inference_speed_fps |-> Zero]

\* lines 108-145: the metrics record; rs are the five safe_round outcomes
MetricsRecord(model_path, dataset_path, model_name, e, rs) ==
    LET num_images == LenOrZero(e.box.map50_per_class)
        vt == e.validation_time
        base ==
            [model_name |-> model_name, model_path |-> model_path,
             dataset_path |-> dataset_path, model_size_mb |-> e.size,
             validation_time_seconds |-> PyRound(vt, 2),
             map50 |-> rs[1].v.f, map95 |-> rs[2].v.f,
             precision |-> rs[3].v.f, recall |-> rs[4].v.f,
             f1_score |-> rs[5].v.f, num_images |-> num_images,
             classes |-> e.box.names, device |-> "cpu",
             inference_speed_fps |->
                IF PyGt(vt, Zero) /\ num_images > 0
                THEN PyRound(PyDiv(Fin(num_images * Scale), vt), 2)
                ELSE Zero]
        pc50 == IF e.box.map50_per_class.kind # "none"
                THEN [per_class_map50 |->
                        PerClass(e.box.names, e.box.map50_per_class)]
                ELSE EmptyDict
        pc95 == IF e.box.map_per_class.kind # "none"
                THEN [per_class_map95 |->
                        PerClass(e.box.names, e.box.map_per_class)]
                ELSE EmptyDict
    IN  base @@ pc50 @@ pc95

\* validate_model without its try block
Handler_reraise(model_path, dataset_path, model_name, e, exc) == Raise(exc)

\* lines 164-176: the handler of validate_model; an exception it does not
\* catch propagates to the caller
Handler(model_path, dataset_path, model_name, e, exc) ==
    IF IsException(exc)
    THEN Ok(ErrorRecord(model_path, dataset_path, model_name, e, exc))
    ELSE Raise(exc)

\* lines 108-162: rs are the outcomes of the five safe_round calls, the
\* first that raised ends the try block
Extracted(model_path, dataset_path, model_name, e, rs) ==
    LET raised == {k \in 1..5 : rs[k].tag = "raise"}
    IN  IF raised # {}
        THEN Handler(model_path, dataset_path, model_name, e,
                     rs[CHOOSE k \in raised : \A j \in raised : k <= j].exc)
        ELSE Ok(MetricsRecord(model_path, dataset_path, model_name, e, rs))

\* lines 20-176: validate_model in the environment e
validate_model(model_path, dataset_path, model_name, e) ==
    IF e.load # "ok"
    THEN Handler(model_path, dataset_path, model_name, e, e.load)
    ELSE IF e.val # "ok"
    THEN Handler(model_path, dataset_path, model_name, e, e.val)
    ELSE Extracted(model_path, dataset_path, model_name, e,
                   <<safe_round(e.box.map50, DefaultDecimals),
                     safe_round(e.box.map, DefaultDecimals),
                     safe_round(e.box.mp, DefaultDecimals),
                     safe_round(e.box.mr, DefaultDecimals),
                     safe_round(e.box.f1, DefaultDecimals)>>)

\* lines 178-214: measure_inference_speed
measure_inference_speed(e) ==
    IF e.speed # "ok"
    THEN IF IsException(e.speed)
         THEN Ok([avg_inference_time_ms |-> Zero, inference_fps |-> Zero])
         ELSE Raise(e.speed)
    ELSE LET avg == e.avg_inference_time
         IN  Ok([avg_inference_time_ms |-> PyRound(Fin(avg.num * 1000), 2),
                 inference_fps |->
                    PyRound(IF PyGt(avg, Zero) THEN PyDiv(Fin(Scale), avg)
                            ELSE Zero, 2)])

\* the configured model names, in the order the loop visits them
Configured == SubSeq(ModelNames, 1, total_models)

\* 'error' in m
HasError(m) == "error" \in DOMAIN m

\* [m[key] for m in models.values() if key in m and 'error' not in m]
RECURSIVE Collect(_, _, _)
Collect(names, ms, key) ==
    IF names = <<>> THEN <<>>
    ELSE LET m == ms[Head(names)]
             rest == Collect(Tail(names), ms, key)
         IN  IF key \in DOMAIN m /\ ~HasError(m) THEN <<m[key]>> \o rest
             ELSE rest

\* x[1].get(key, 0)
GetOrZero(m, key) == IF key \in DOMAIN m THEN m[key] ELSE Zero

\* max(models.items(), key=...)[0]: the first item no later item exceeds
RECURSIVE MaxBy(_, _, _)
MaxBy(names, ms, key) ==
    IF Len(names) = 1 THEN names[1]
    ELSE LET front == SubSeq(names, 1, Len(names) - 1)
             last == names[Len(names)]
             best == MaxBy(front, ms, key)
         IN  IF PyGt(GetOrZero(ms[last], key), GetOrZero(ms[best], key))
             THEN last ELSE best

\* lines 335-347: validation_results['summary']
Summary(ms, valid) ==
    LET all_map50 == Collect(Configured, ms, "map50")
        all_map95 == Collect(Configured, ms, "map95")
        all_sizes == Collect(Configured, ms, "model_size_mb")
    IN  [total_models |-> total_models,
         successfully_validated |-> valid,
         failed_validations |-> total_models - valid,
         average_map50 |-> IF all_map50 # <<>>
                           THEN PyRound(NpMean(all_map50).f, 4) ELSE Zero,
         average_map95 |-> IF all_map95 # <<>>
                           THEN PyRound(NpMean(all_map95).f, 4) ELSE Zero,
         best_map50_model |-> IF all_map50 # <<>>
                              THEN MaxBy(Configured, ms, "map50")
                              ELSE "None",
         best_map95_model |-> IF all_map95 # <<>>
                              THEN MaxBy(Configured, ms, "map95")
                              ELSE "None",
         total_models_size_mb |-> IF all_sizes # <<>>
                                  THEN PyRound(Fin(SumNum(all_sizes)), 2)
                                  ELSE Zero,
         average_model_size_mb |-> IF all_sizes # <<>>
                                   THEN PyRound(NpMean(all_sizes).f, 2)
                                   ELSE Zero]

InitMain ==
    /\ RoundIdle /\ ConcIdle /\ TrainIdle
    /\ idx = 0
    /\ sample_image = FALSE
    /\ env = EmptyDict
    /\ metrics = NoResult
    /\ models = EmptyDict
    /\ valid_models = 0
    /\ total_size = Zero
    /\ summary = EmptyDict
    /\ written = EmptyDict
    /\ mpc = "start"

\* lines 264-275: look for a sample image in the val directories
MainFindSample ==
    /\ mpc = "start"
    /\ sample_image' \in BOOLEAN
    /\ mpc' = "loop"
    /\ UNCHANGED <<idx, env, metrics, models, valid_models, total_size,
                   summary, written>>
    /\ UNCHANGED <<roundVars, concVars, trainVars>>

\* `continue` taken before the entry is stored
Skip_nostore(model_name, entry) ==
    /\ idx' = idx + 1
    /\ UNCHANGED <<models, metrics, valid_models, total_size, mpc>>

\* lines 286-300: the model or the dataset file is missing; `continue`
Skip(model_name, entry) ==
    /\ models' = (model_name :> entry) @@ models
    /\ idx' = idx + 1
    /\ UNCHANGED <<metrics, valid_models, total_size, mpc>>

\* an exception leaves main: the run ends with a traceback
Abort(vm) ==
    /\ metrics' = vm
    /\ mpc' = "aborted"
    /\ UNCHANGED <<idx, models, valid_models, total_size>>

\* lines 315-327: store the entry and count it
Record(model_name, vm, entry) ==
    /\ metrics' = vm
    /\ models' = (model_name :> entry) @@ models
    /\ valid_models' = IF ~HasError(entry) THEN valid_models + 1
                       ELSE valid_models
    /\ total_size' = IF ~HasError(entry)
                     THEN Fin(total_size.num + entry.model_size_mb.num)
                     ELSE total_size
    /\ idx' = idx + 1
    /\ UNCHANGED mpc

\* lines 313-315: metrics.update(speed_metrics)
Measured(model_name, vm, speed) ==
    IF speed.tag = "raise" THEN Abort(vm)
    ELSE Record(model_name, vm, speed.v @@ vm.v)

\* lines 309-312: measure the speed when there is a sample image and the
\* validation did not fail
Validated(model_name, e, vm) ==
    IF vm.tag = "raise" THEN Abort(vm)
    ELSE Measured(model_name, vm,
                  IF sample_image /\ ~HasError(vm.v)
                  THEN measure_inference_speed(e) ELSE Ok(EmptyDict))

\* lines 283-327: the body of the loop for model_name in the environment e
LoopBody(model_name, config, e) ==
    /\ env' = e
    /\ IF ~e.model_exists
       THEN Skip(model_name, [error |-> "Model file not found",
                              model_path |-> config.model_path])
       ELSE IF ~e.dataset_exists
       THEN Skip(model_name, [error |-> "Dataset file not found",
                              dataset_path |-> config.dataset_path])
       ELSE Validated(model_name, e,
                      validate_model(config.model_path, config.dataset_path,
                                     model_name, e))

\* lines 282-327: one iteration of the loop
MainIterate ==
    /\ mpc = "loop"
    /\ idx < total_models
    /\ \E e \in Envs :
          LoopBody(ModelNames[idx + 1], Config(ModelNames[idx + 1]), e)
    /\ UNCHANGED <<sample_image, summary, written>>
    /\ UNCHANGED <<roundVars, concVars, trainVars>>

\* lines 329-347: the loop has ended; generate the summary
MainSummary ==
    /\ mpc = "loop"
    /\ idx = total_models
    /\ summary' = IF valid_models > 0 THEN Summary(models, valid_models)
                  ELSE summary
    /\ mpc' = "write"
    /\ UNCHANGED <<idx, sample_image, env, metrics, models, valid_models,
                   total_size, written>>
    /\ UNCHANGED <<roundVars, concVars, trainVars>>

\* lines 349-352: json.dump(validation_results, f)
MainWrite ==
    /\ mpc = "write"
    /\ written' = [models |-> models, summary |-> summary]
    /\ mpc' = "done"
    /\ UNCHANGED <<idx, sample_image, env, metrics, models, valid_models,
                   total_size, summary>>
    /\ UNCHANGED <<roundVars, concVars, trainVars>>

NextMain == MainFindSample \/ MainIterate \/ MainSummary \/ MainWrite

SpecMain == InitMain /\ [][NextMain]_vars

\* the interpreter runs main to its end: a step that can be taken is taken
FairSpecMain == SpecMain /\ WF_vars(NextMain)

(***************************************************************************)
(* train_models.py: the unsplit branch of DatasetPreparator.prepare_dataset.*)
(* The products 0.7 * n_images and 0.2 * n_images are IEEE 754 binary64    *)
(* operations: a float is m * 2^-e, with the natural number m given by its *)
(* digits in base 2^LimbBits, least significant first.                     *)
(***************************************************************************)
\* largest number of image files in the directory
MaxImages == 96

\* lists up to this length are shuffled into every order
MaxShuffled == 3

\* bits of the significand of a binary64 float
Prec == 53

\* bits of one digit of a significand
LimbBits == 10

Base == 2^LimbBits

RECURSIVE LimbsOf(_)
LimbsOf(n) == IF n = 0 THEN <<>> ELSE <<n % Base>> \o LimbsOf(n \div Base)

RECURSIVE ValOf(_)
ValOf(m) == IF m = <<>> THEN 0 ELSE m[1] + Base * ValOf(Tail(m))

Zeros(k) == [i \in 1..k |-> 0]

\* drop the zero digits above the highest digit that is not zero
RECURSIVE Trim(_)
Trim(m) ==
    IF m = <<>> \/ m[Len(m)] # 0 THEN m
    ELSE Trim(SubSeq(m, 1, Len(m) - 1))

\* the number of bits of m
BitLen(m) ==
    IF m = <<>> THEN 0
    ELSE LimbBits * (Len(m) - 1)
         + (CHOOSE w \in 1..LimbBits :
                2^(w - 1) <= m[Len(m)] /\ m[Len(m)] < 2^w)

\* m * n + c for natural numbers n and c
RECURSIVE MulAdd(_, _, _)
MulAdd(m, n, c) ==
    IF m = <<>> THEN LimbsOf(c)
    ELSE <<(m[1] * n + c) % Base>>
         \o MulAdd(Tail(m), n, (m[1] * n + c) \div Base)

\* m * 2^k
ShiftLeft(m, k) ==
    MulAdd(Zeros(k \div LimbBits) \o m, 2^(k % LimbBits), 0)

\* m divided by 2^k, the remainder dropped
ShiftRight(m, k) ==
    LET w == k \div LimbBits
        s == k % LimbBits
        at(i) == IF i <= Len(m) THEN m[i] ELSE 0
    IN  Trim([i \in 1..(Len(m) - w) |->
                 (at(i + w) \div 2^s) + (at(i + w + 1) % 2^s) * 2^(LimbBits - s)])

\* m modulo 2^k, for k up to three digits
LowBits(m, k) ==
    ValOf(SubSeq(m, 1, IF Len(m) < 3 THEN Len(m) ELSE 3)) % 2^k

\* m with its k lowest bits rounded away, ties to even
RoundBits(m, k) ==
    IF \/ LowBits(m, k) > 2^(k - 1)
       \/ LowBits(m, k) = 2^(k - 1) /\ LowBits(m, k + 1) \div 2^k = 1
    THEN MulAdd(ShiftRight(m, k), 1, 1)
    ELSE ShiftRight(m, k)

\* quotient and remainder of m by 10, by long division from the top digit
RECURSIVE DivTen(_)
DivTen(m) ==
    IF m = <<>> THEN [q |-> <<>>, r |-> 0]
    ELSE LET hi == DivTen(Tail(m))
         IN  [q |-> <<(Base * hi.r + m[1]) \div 10>> \o hi.q,
              r |-> (Base * hi.r + m[1]) % 10]

\* p * 2^e / 10 rounded to the nearest integer, ties to even
NearestTenth(p, e) ==
    LET d == DivTen(ShiftLeft(LimbsOf(p), e))
        q == Trim(d.q)
    IN  IF 2 * d.r > 10 \/ (2 * d.r = 10 /\ q # <<>> /\ q[1] % 2 = 1)
        THEN MulAdd(q, 1, 1) ELSE q

\* the float of the literal 0.p (0.7, 0.2): the nearest m * 2^-e whose
\* significand m has Prec bits
RECURSIVE FloatOfTenths(_, _)
FloatOfTenths(p, e) ==
    IF BitLen(NearestTenth(p, e)) >= Prec
    THEN [m |-> NearestTenth(p, e), e |-> e]
    ELSE FloatOfTenths(p, e + 1)

\* the exact value m * 2^-e rounded to a float
RoundToPrec(m, e) ==
    IF BitLen(m) <= Prec THEN [m |-> m, e |-> e]
    ELSE [m |-> RoundBits(m, BitLen(m) - Prec), e |-> e - (BitLen(m) - Prec)]

\* x * n for a float x and an int n, which converts to a float exactly
FloatMulInt(x, n) == RoundToPrec(Trim(MulAdd(x.m, n, 0)), x.e)

\* int(x) for a float x >= 0 with e >= 0: the fraction bits are dropped
PyInt(x) == ValOf(ShiftRight(x.m, x.e))

\* a file of the images directory; img_path.name is stem + suffix
File(k, ext) == [stem |-> k, ext |-> ext]

FileName(f) == "img_" \o ToString(f.stem) \o "." \o f.ext

\* the images directory: n image files, .jpg and .png alternating, and,
\* when extra, a file glob does not match
Directory(n, extra) ==
    [k \in 1..n |-> File(k, IF k % 2 = 1 THEN "jpg" ELSE "png")]
    \o (IF extra THEN <<File(0, "txt")>> ELSE <<>>)

\* images_path.glob('*.<ext>')
Glob(d, ext) == SelectSeq(d, LAMBDA f : f.ext = ext)

\* the orders random.shuffle can leave n items in: every order for a short
\* list; the given order, its reverse and a rotation for a longer one
Orders(n) ==
    IF n <= MaxShuffled
    THEN {p \in [1..n -> 1..n] : \A i, j \in 1..n : p[i] = p[j] => i = j}
    ELSE {[i \in 1..n |-> i], [i \in 1..n |-> n + 1 - i],
          [i \in 1..n |-> ((i - 1 + n \div 2) % n) + 1]}

Shuffles(s) == {[i \in 1..Len(s) |-> s[p[i]]] : p \in Orders(Len(s))}

\* s[lo:hi] with an end before the start
PySlice_skip(s, lo, hi) ==
    SubSeq(s, (IF lo < Len(s) THEN lo ELSE Len(s)) + 2,
              IF hi < Len(s) THEN hi ELSE Len(s))

\* s[lo:hi] for 0 <= lo, hi: the bounds are clipped to len(s)
PySlice(s, lo, hi) ==
    SubSeq(s, (IF lo < Len(s) THEN lo ELSE Len(s)) + 1,
              IF hi < Len(s) THEN hi ELSE Len(s))

InitSplit ==
    /\ RoundIdle /\ ConcIdle /\ MainIdle /\ YamlIdle /\ GenIdle
    /\ \E n \in 0..MaxImages, extra \in BOOLEAN : dir = Directory(n, extra)
    /\ all_images = <<>>
    /\ n_images = 0
    /\ n_train = 0
    /\ n_val = 0
    /\ splits = EmptyDict
    /\ copied = EmptyDict
    /\ spc = "start"

\* lines 139-143: collect the images, shuffle them, count them
SplitCollect ==
    /\ spc = "start"
    /\ all_images' \in Shuffles(Glob(dir, "jpg") \o Glob(dir, "png"))
    /\ n_images' = Len(all_images')
    /\ spc' = "shuffled"
    /\ UNCHANGED <<dir, n_train, n_val, splits, copied>>
    /\ UNCHANGED <<roundVars, concVars, mainVars, yamlVars, genVars>>

\* lines 144-145: n_train = int(0.7 * n_images), n_val = int(0.2 * n_images)
SplitCount ==
    /\ spc = "shuffled"
    /\ n_train' = PyInt(FloatMulInt(FloatOfTenths(7, Prec), n_images))
    /\ n_val' = PyInt(FloatMulInt(FloatOfTenths(2, Prec), n_images))
    /\ spc' = "counted"
    /\ UNCHANGED <<dir, all_images, n_images, splits, copied>>
    /\ UNCHANGED <<roundVars, concVars, mainVars, yamlVars, genVars>>

\* lines 147-151: the three slices
SplitSlice ==
    /\ spc = "counted"
    /\ splits' = [train |-> PySlice(all_images, 0, n_train),
                  val |-> PySlice(all_images, n_train, n_train + n_val),
                  test |-> PySlice(all_images, n_train + n_val,
                                   Len(all_images))]
    /\ spc' = "sliced"
    /\ UNCHANGED <<dir, all_images, n_images, n_train, n_val, copied>>
    /\ UNCHANGED <<roundVars, concVars, mainVars, yamlVars, genVars>>

\* lines 154-166: copy every image of every split to images/<split>/<name>
SplitCopy ==
    /\ spc = "sliced"
    /\ copied' = [k \in DOMAIN splits |->
                    {FileName(splits[k][i]) : i \in 1..Len(splits[k])}]
    /\ spc' = "copied"
    /\ UNCHANGED <<dir, all_images, n_images, n_train, n_val, splits>>
    /\ UNCHANGED <<roundVars, concVars, mainVars, yamlVars, genVars>>

NextSplit == SplitCollect \/ SplitCount \/ SplitSlice \/ SplitCopy

SpecSplit == InitSplit /\ [][NextSplit]_vars

(***************************************************************************)
(* train_models.py: create_data_yaml and get_class_names.                  *)
(***************************************************************************)
\* largest number of label lines in labels/train
MaxLabels == 2

\* lines 50-57: self.datasets
datasets ==
    [n \in {"coal_miner_data2023_yolo",
            "hydraulic_support_guard_plate_data2023_yolo",
            "large_coal_data2023_yolo", "mine_safety_helmet__data2023_yolo",
            "miner_behavior_data2023_yolo", "towline_data2023_yolo"} |->
        CASE n = "coal_miner_data2023_yolo" -> "coal_miner"
          [] n = "hydraulic_support_guard_plate_data2023_yolo" ->
                "hydraulic_support"
          [] n = "large_coal_data2023_yolo" -> "large_coal"
          [] n = "mine_safety_helmet__data2023_yolo" -> "mine_safety_helmet"
          [] n = "miner_behavior_data2023_yolo" -> "miner_behavior"
          [] n = "towline_data2023_yolo" -> "towline"]

\* lines 214-221: class_mappings
class_mappings ==
    [n \in {"coal_miner_data2023_yolo",
            "hydraulic_support_guard_plate _data2023_yolo",
            "large_coal_data2023_yolo", "mine_safety_helmet__data2023_yolo",
            "miner_behavior _data2023_yolo", "towline _data2023_yolo"} |->
        CASE n = "coal_miner_data2023_yolo" ->
                <<"person", "miner", "equipment">>
          [] n = "hydraulic_support_guard_plate _data2023_yolo" ->
                <<"support", "plate", "damage">>
          [] n = "large_coal_data2023_yolo" ->
                <<"large_coal", "normal_coal", "debris">>
          [] n = "mine_safety_helmet__data2023_yolo" ->
                <<"helmet", "no_helmet", "person">>
          [] n = "miner_behavior _data2023_yolo" ->
                <<"safe", "unsafe", "warning">>
          [] n = "towline _data2023_yolo" ->
                <<"towline", "damage", "obstruction">>]

\* the names create_data_yaml is called with: the keys of self.datasets
\* and a key of class_mappings that is none of them
DatasetNames == DOMAIN datasets \cup {"towline _data2023_yolo"}

\* self.datasets.get(dataset_name, dataset_name)
ShortName(name) == IF name \in DOMAIN datasets THEN datasets[name] ELSE name

\* int(s) for the grammar [+-] digits; anything else is a ValueError
ParseInt(cs) ==
    LET signed == cs # <<>> /\ cs[1] \in {"+", "-"}
        body == IF signed THEN SubSeq(cs, 2, Len(cs)) ELSE cs
    IN  IF body # <<>> /\ AllDigits(body)
        THEN Ok(PyIntObj((IF signed /\ cs[1] = "-" THEN -1 ELSE 1)
                         * DigitsVal(body)))
        ELSE Raise("ValueError")

\* a label line after strip().split(): no part for a blank line, else the
\* class index and the four coordinates of the box
LabelLine(tok) ==
    <<tok, <<"0", ".", "5">>, <<"0", ".", "5">>, <<"0", ".", "2">>,
      <<"0", ".", "2">>>>

LabelLines ==
    {<<>>} \cup {LabelLine(tok) :
                    tok \in {<<"0">>, <<"4">>, <<"-", "1">>, <<"x">>}}

\* the directories of exactly f label files with at most b lines in all
RECURSIVE LabelDirs(_, _)
LabelDirs(f, b) ==
    IF f = 0 THEN {<<>>}
    ELSE UNION {{<<file>> \o rest : rest \in LabelDirs(f - 1, b - Len(file))} :
                   file \in SeqsUpTo(LabelLines, b)}

\* lines 183-190: the lines of all label files in the order they are read
AllLines(files) ==
    LET RECURSIVE Flat(_)
        Flat(fs) == IF fs = <<>> THEN <<>> ELSE Head(fs) \o Flat(Tail(fs))
    IN  SelectSeq(Flat(files), LAMBDA parts : parts # <<>>)

\* get_class_names without the final names[:nc]
get_class_names_noslice(name, n) ==
    LET RECURSIVE Extend(_)
        Extend(names) ==
            IF Len(names) < n
            THEN Extend(Append(names, "class_" \o ToString(Len(names))))
            ELSE names
    IN  IF name \in DOMAIN class_mappings
        THEN Extend(class_mappings[name])
        ELSE [k \in 1..n |-> "class_" \o ToString(k - 1)]

\* lines 212-230: get_class_names, for n >= 0
get_class_names(name, n) ==
    LET RECURSIVE Extend(_)
        Extend(names) ==
            IF Len(names) < n
            THEN Extend(Append(names, "class_" \o ToString(Len(names))))
            ELSE names
    IN  IF name \in DOMAIN class_mappings
        THEN PySlice(Extend(class_mappings[name]), 0, n)
        ELSE [k \in 1..n |-> "class_" \o ToString(k - 1)]

InitYaml ==
    /\ RoundIdle /\ ConcIdle /\ MainIdle /\ SplitIdle /\ GenIdle
    /\ dataset_name \in DatasetNames
    /\ label_files \in UNION {LabelDirs(f, MaxLabels) : f \in 0..MaxLabels}
    /\ all_classes = {}
    /\ nc = 0
    /\ class_names = <<>>
    /\ data_yaml = EmptyDict
    /\ ypc = "start"

\* lines 183-190: read the class index of every label line; int() of a
\* first part that is no integer raises ValueError out of create_data_yaml
YamlScan ==
    /\ ypc = "start"
    /\ LET lines == AllLines(label_files)
           parsed == [k \in 1..Len(lines) |-> ParseInt(lines[k][1])]
       IN  IF \E k \in 1..Len(lines) : parsed[k].tag = "raise"
           THEN ypc' = "raised" /\ UNCHANGED all_classes
           ELSE /\ all_classes' = {parsed[k].v.n : k \in 1..Len(lines)}
                /\ ypc' = "scanned"
    /\ UNCHANGED <<dataset_name, label_files, nc, class_names, data_yaml>>
    /\ UNCHANGED <<roundVars, concVars, mainVars, splitVars, genVars>>

\* line 192: nc = max(all_classes) + 1 if all_classes else 1
YamlCount ==
    /\ ypc = "scanned"
    /\ nc' = IF all_classes # {}
             THEN (CHOOSE c \in all_classes : \A d \in all_classes : d <= c) + 1
             ELSE 1
    /\ ypc' = "counted"
    /\ UNCHANGED <<dataset_name, label_files, all_classes, class_names,
                   data_yaml>>
    /\ UNCHANGED <<roundVars, concVars, mainVars, splitVars, genVars>>

\* line 195: class_names = self.get_class_names(dataset_name, nc)
YamlNames ==
    /\ ypc = "counted"
    /\ class_names' = get_class_names(dataset_name, nc)
    /\ ypc' = "named"
    /\ UNCHANGED <<dataset_name, label_files, all_classes, nc, data_yaml>>
    /\ UNCHANGED <<roundVars, concVars, mainVars, splitVars, genVars>>

\* lines 197-208: the dict dumped to data.yaml; the path is relative to the
\* working directory
YamlWrite ==
    /\ ypc = "named"
    /\ data_yaml' = [path |-> "datasets/" \o ShortName(dataset_name),
                     train |-> "images/train", val |-> "images/val",
                     test |-> "images/test", nc |-> nc,
                     names |-> class_names]
    /\ ypc' = "written"
    /\ UNCHANGED <<dataset_name, label_files, all_classes, nc, class_names>>
    /\ UNCHANGED <<roundVars, concVars, mainVars, splitVars, genVars>>

NextYaml == YamlScan \/ YamlCount \/ YamlNames \/ YamlWrite

SpecYaml == InitYaml /\ [][NextYaml]_vars

(***************************************************************************)
(* train_models.py: prepare_general_dataset, on source datasets whose      *)
(* data.yaml create_data_yaml wrote.                                       *)
(***************************************************************************)
\* number of entries of self.datasets the loop visits (the dict has 6)
NumSources == 2

\* largest number of lines of one label file of a source dataset
MaxGenLines == 1

\* lines 50-57: the keys of self.datasets in the order of the dict
DatasetOrder ==
    <<"coal_miner_data2023_yolo",
      "hydraulic_support_guard_plate_data2023_yolo",
      "large_coal_data2023_yolo", "mine_safety_helmet__data2023_yolo",
      "miner_behavior_data2023_yolo", "towline_data2023_yolo">>

num_sources == IF NumSources < Len(DatasetOrder) THEN NumSources
               ELSE Len(DatasetOrder)

DigitChar(d) ==
    CASE d = 0 -> "0" [] d = 1 -> "1" [] d = 2 -> "2" [] d = 3 -> "3"
      [] d = 4 -> "4" [] d = 5 -> "5" [] d = 6 -> "6" [] d = 7 -> "7"
      [] d = 8 -> "8" [] d = 9 -> "9"

\* the decimal digits of a natural number
RECURSIVE DigitsOf(_)
DigitsOf(n) ==
    IF n < 10 THEN <<DigitChar(n)>>
    ELSE Append(DigitsOf(n \div 10), DigitChar(n % 10))

\* str(n) of an int, as the sequence of its characters
StrOfInt(n) == IF n < 0 THEN <<"-">> \o DigitsOf(-n) ELSE DigitsOf(n)

\* the label file of an image: absent, or its lines after strip().split()
GenLabelFiles ==
    {[exists |-> FALSE, lines |-> <<>>]}
        \cup {[exists |-> TRUE, lines |-> ls] :
                 ls \in SeqsUpTo({<<>>, LabelLine(<<"0">>), LabelLine(<<"1">>)},
                                 MaxGenLines)}

\* lines 181-210: the data.yaml create_data_yaml wrote for a dataset whose
\* labels/train holds the label file train
DataYamlOf(name, train) ==
    LET classes == {ParseInt(train.lines[k][1]).v.n :
                       k \in {j \in 1..Len(train.lines) :
                                 train.lines[j] # <<>>}}
        n == IF classes # {}
             THEN (CHOOSE c \in classes : \A d \in classes : d <= c) + 1
             ELSE 1
    IN  [nc |-> n, names |-> get_class_names(name, n)]

\* datasets/<short_name> with one image img.jpg in each split
Prepared(name, train, val, test) ==
    [status |-> "prepared", dataset_name |-> name, labels |->
        [train |-> train, val |-> val, test |-> test],
     data_info |-> DataYamlOf(name, train)]

\* datasets/<short_name> is missing, or has no data.yaml
Unprepared(name, status) ==
    [status |-> status, dataset_name |-> name, labels |-> EmptyDict,
     data_info |-> EmptyDict]

SourceStates(name) ==
    {Unprepared(name, "missing"), Unprepared(name, "noyaml")}
        \cup {Prepared(name, tr, va, te) :
                 tr \in GenLabelFiles, va \in GenLabelFiles,
                 te \in GenLabelFiles}

\* the states of the first k source datasets
RECURSIVE SourceSeqs(_)
SourceSeqs(k) ==
    IF k = 0 THEN {<<>>}
    ELSE {Append(s, x) : s \in SourceSeqs(k - 1),
                         x \in SourceStates(DatasetOrder[k])}

\* lines 278-289: the lines written to the general label file
RECURSIVE Adjusted(_, _)
Adjusted(lines, offset) ==
    IF lines = <<>> THEN <<>>
    ELSE IF Head(lines) = <<>> THEN Adjusted(Tail(lines), offset)
    ELSE <<<<StrOfInt(ParseInt(Head(lines)[1]).v.n + offset)>>
           \o Tail(Head(lines))>>
         \o Adjusted(Tail(lines), offset)

\* lines 272-289: the general label file of the image of one split
GeneralLabel(short_name, split, label, offset) ==
    [split |-> split, source |-> short_name,
     name |-> short_name \o "_img.txt",
     lines |-> Adjusted(label.lines, offset)]

InitGeneral ==
    /\ RoundIdle /\ ConcIdle /\ MainIdle /\ SplitIdle /\ YamlIdle
    /\ sources \in SourceSeqs(num_sources)
    /\ gidx = 0
    /\ class_offset = 0
    /\ all_class_names = <<>>
    /\ general_images = {}
    /\ general_labels = {}
    /\ general_yaml = EmptyDict
    /\ gpc = "start"

\* lines 234-243: create the directories, class_offset = 0
GeneralStart ==
    /\ gpc = "start"
    /\ class_offset' = 0
    /\ all_class_names' = <<>>
    /\ gpc' = "loop"
    /\ UNCHANGED <<sources, gidx, general_images, general_labels,
                   general_yaml>>
    /\ UNCHANGED <<roundVars, concVars, mainVars, splitVars, yamlVars>>

\* lines 256-291: add the names, copy the images and the adjusted labels of
\* every split, advance class_offset
Combine(src, short_name) ==
    /\ all_class_names' =
          all_class_names
          \o [k \in 1..Len(src.data_info.names) |->
                 short_name \o "_" \o src.data_info.names[k]]
    /\ general_images' =
          general_images
          \cup {[split |-> sp, name |-> short_name \o "_img.jpg"] :
                   sp \in {"train", "val", "test"}}
    /\ general_labels' =
          general_labels
          \cup {GeneralLabel(short_name, sp, src.labels[sp], class_offset) :
                   sp \in {s \in {"train", "val", "test"} :
                              src.labels[s].exists}}
    /\ class_offset' = class_offset + src.data_info.nc

\* lines 245-291: one iteration of the loop over self.datasets
GeneralDataset ==
    /\ gpc = "loop"
    /\ gidx < num_sources
    /\ IF sources[gidx + 1].status = "prepared"
       THEN Combine(sources[gidx + 1],
                    datasets[sources[gidx + 1].dataset_name])
       ELSE UNCHANGED <<all_class_names, general_images, general_labels,
                        class_offset>>
    /\ gidx' = gidx + 1
    /\ UNCHANGED <<sources, general_yaml, gpc>>
    /\ UNCHANGED <<roundVars, concVars, mainVars, splitVars, yamlVars>>

\* lines 293-307: the general data.yaml
GeneralWrite ==
    /\ gpc = "loop"
    /\ gidx = num_sources
    /\ general_yaml' = [path |-> "datasets/general",
                        train |-> "images/train", val |-> "images/val",
                        test |-> "images/test",
                        nc |-> Len(all_class_names),
                        names |-> all_class_names]
    /\ gpc' = "written"
    /\ UNCHANGED <<sources, gidx, class_offset, all_class_names,
                   general_images, general_labels>>
    /\ UNCHANGED <<roundVars, concVars, mainVars, splitVars, yamlVars>>

NextGeneral == GeneralStart \/ GeneralDataset \/ GeneralWrite

SpecGeneral == InitGeneral /\ [][NextGeneral]_vars

(***************************************************************************)
(* Properties.                                                             *)
(***************************************************************************)
\* the first call has completed (returned or raised)
Called == result.tag # "pending"

ZeroFloat == Ok(PyFloatObj(Zero))

\* r is a multiple of 10^-d and no multiple of 10^-d is nearer to x
NearestMultiple(x, r, d) ==
    /\ IsFinite(x) /\ IsFinite(r)
    /\ r.den = 1
    /\ r.num % Unit(d) = 0
    /\ 2 * Abs(r.num * x.den - x.num) <= Unit(d) * x.den

\* r is x rounded to d digits; a NaN or an infinity has no digits to round
RoundedTo(x, r, d) == IF IsFinite(x) THEN NearestMultiple(x, r, d) ELSE r = x

\* the IEEE arithmetic mean of a non-empty sequence of floats
MeanOf(fs) ==
    LET n == Len(fs)
        cnt(c) == Cardinality({i \in 1..n : fs[i].cls = c})
        fin == {i \in 1..n : fs[i].cls = "fin"}
        RECURSIVE total(_)
        total(I) == IF I = {} THEN 0
                    ELSE LET i == CHOOSE j \in I : TRUE
                         IN  fs[i].num + total(I \ {i})
    IN  IF cnt("nan") > 0 \/ (cnt("inf") > 0 /\ cnt("ninf") > 0) THEN NaN
        ELSE IF cnt("inf") > 0 THEN PosInf
        ELSE IF cnt("ninf") > 0 THEN NegInf
        ELSE Rat(total(fin), n)

\* the float a scalar input denotes (an int that fits a double)
ScalarValue(x) ==
    CASE x.kind = "int" -> Fin(x.n * Scale)
      [] x.kind = "bool" -> Fin(IF x.b THEN Scale ELSE 0)
      [] OTHER -> x.f

IsScalarInput == value.kind \in {"int", "float", "npscalar"}

\* C1: every call of safe_round and of safe_round_v2 returns a float and
\* never raises, whatever the input value and decimals.
C1_NeverRaises ==
    Called => result.tag = "ok" /\ result.v.kind = "float"

\* C2: every value safe_round returns is a single finite float, never
\* None, NaN, an infinity or an array.
C2_ResultFinite ==
    result.tag = "ok" => result.v.kind = "float" /\ IsFinite(result.v.f)

\* C3: for an array of more than one element the call does not raise and
\* returns the arithmetic mean of all elements rounded to `decimals` digits.
C3_ArrayMean ==
    (Called /\ value.kind = "ndarray" /\ Size(value) > 1)
        => /\ result.tag = "ok"
           /\ result.v.kind = "float"
           /\ RoundedTo(MeanOf(value.elems), result.v.f, decimals)

\* the array [0.95, 0.89, 0.92] normalized with the default decimals is 0.92
C3_Witness ==
    /\ pc = "returned" /\ impl = "safe_round" /\ defaulted
    /\ value = NdArray(<<Fin(Frac(95, 2)), Fin(Frac(89, 2)),
                         Fin(Frac(92, 2))>>, 1)
    /\ result = Ok(PyFloatObj(Fin(Frac(92, 2))))

\* C4: safe_round(None, d) returns 0.0 for every decimals d.
C4_NoneIsZero ==
    (Called /\ value.kind = "none") => result = ZeroFloat

C4_Witness ==
    /\ pc = "returned" /\ impl = "safe_round" /\ value = PyNone
    /\ ~defaulted /\ decimals = 2 /\ result = ZeroFloat

\* C5: for every array with zero elements safe_round returns 0.0.
C5_EmptyArrayIsZero ==
    (Called /\ value.kind = "ndarray" /\ Size(value) = 0)
        => result = ZeroFloat

C5_Witness ==
    /\ pc = "returned" /\ impl = "safe_round"
    /\ value = NdArray(<<>>, 1) /\ result = ZeroFloat

\* C6: for every array with exactly one element, of any shape or
\* zero-dimensional, safe_round returns that element rounded to `decimals`
\* digits.
C6_SingleElement ==
    (Called /\ value.kind = "ndarray" /\ Size(value) = 1)
        => /\ result.tag = "ok"
           /\ result.v.kind = "float"
           /\ RoundedTo(value.elems[1], result.v.f, decimals)

\* the zero-dimensional array(0.125) rounded to 2 digits is 0.12
C6_Witness ==
    /\ pc = "returned" /\ impl = "safe_round" /\ decimals = 2
    /\ value = NdArray(<<Fin(Frac(125, 3))>>, 0)
    /\ result = Ok(PyFloatObj(Fin(Frac(12, 2))))

\* C7: for every scalar input (Python int, Python float, numpy scalar)
\* safe_round returns that value as a float rounded to `decimals` digits;
\* the int 1 gives 1.0.
C7_ScalarRounded ==
    (Called /\ IsScalarInput)
        => /\ result.tag = "ok"
           /\ result.v.kind = "float"
           /\ RoundedTo(ScalarValue(value), result.v.f, decimals)

\* C8: an input that is not None, not an array, not a number and cannot be
\* converted to a float (a non-numeric string, a list, a dict, an arbitrary
\* object) gives exactly 0.0; the conversion failure is not propagated.
NonNumericStrings ==
    {<<>>, <<"a", "b", "c">>, <<"1", ".", "2", ".", "3">>}

IsUnconvertible(x) ==
    \/ x.kind \in {"list", "dict", "object"}
    \/ x.kind = "str" /\ x.s \in NonNumericStrings

C8_UnconvertibleIsZero ==
    (Called /\ IsUnconvertible(value)) => result = ZeroFloat

\* a list, whose conversion is a TypeError, normalized to 0.0
C8_Witness ==
    /\ pc = "returned" /\ impl = "safe_round"
    /\ value = PyList(<<Fin(Frac(95, 2))>>) /\ result = ZeroFloat

\* C9: safe_round(safe_round(x, d), d) == safe_round(x, d) for every
\* input x: the second call returns a value equal to the first.
C9_Idempotent ==
    /\ pc # "raised2"
    /\ pc = "renormalized"
        => /\ result2.tag = "ok" /\ result2.v.kind = "float"
           /\ FloatEq(result2.v.f, result.v.f)

\* C10: for every scalar x and decimals d the result is the multiple of
\* 10^-d nearest to x; safe_round(0.123456) with the default decimals,
\* which is 4, is 0.1235.
C10_NearestMultiple ==
    /\ (Called /\ IsScalarInput)
        => /\ result.tag = "ok"
           /\ result.v.kind = "float"
           /\ NearestMultiple(ScalarValue(value), result.v.f, decimals)
    /\ (Called /\ defaulted /\ value = PyFloatObj(Fin(Frac(123456, 6))))
        => result = Ok(PyFloatObj(Fin(Frac(1235, 4))))

\* C11: safe_round reads only its arguments and writes neither the argument
\* object nor any shared state, so in every interleaving of concurrent
\* calls each call returns what the same call returns when run alone.
C11_PureUnderInterleaving ==
    /\ shared = shared0
    /\ \A t \in Threads :
          tpc[t] = "done" => tres[t] = safe_round(shared0, tdec[t])

\* both threads have finished on the same tensor, one of them entering the
\* tensor branch after the other had returned from it
C11_Witness ==
    /\ shared = Tensor(<<Fin(Frac(95, 2)), NaN>>, "ValueError", FALSE)
    /\ tdec[1] # tdec[2]
    /\ \A t \in Threads : tpc[t] = "done" /\ tres[t].tag = "ok"

\* C12: safe_round_v2 and safe_round are behaviourally equivalent: on every
\* input value and decimals they return the same result, or both raise.
C12_Equivalent ==
    Called =>
        LET other == IF impl = "safe_round"
                     THEN safe_round_v2(value, decimals)
                     ELSE safe_round(value, decimals)
        IN  \/ result.tag = "raise" /\ other.tag = "raise"
            \/ result = other

\* safe_round_v2 has returned the mean of a three-element array
C12_Witness ==
    /\ pc = "returned" /\ impl = "safe_round_v2" /\ decimals = 4
    /\ value = NdArray(<<Fin(Frac(95, 2)), Fin(Frac(89, 2)),
                         Fin(Frac(125, 3))>>, 1)
    /\ result = Ok(PyFloatObj(Fin(Frac(655, 3))))

\* the names of the configured models
ConfiguredNames == {Configured[k] : k \in 1..total_models}

\* entries of the models dict without an 'error' key
Succeeded == {n \in DOMAIN models : ~HasError(models[n])}

\* C13: whatever happens to each model (model file missing, dataset file
\* missing, an exception during validation or metric extraction, success),
\* the loop goes on to every remaining configured model and the run
\* eventually writes the results file with an entry for every model.
C13_ReachesWrite ==
    <>(/\ mpc = "done"
       /\ idx = total_models
       /\ DOMAIN written.models = ConfiguredNames)

\* a run with a missing model file, then a failed load, then a success
C13_Witness ==
    /\ mpc = "done"
    /\ written.models = models
    /\ models[Configured[1]].error = "Model file not found"
    /\ HasError(models[Configured[2]])
    /\ models[Configured[2]].error = "RuntimeError"
    /\ ~HasError(models[Configured[3]])

ValidateCalled ==
    /\ metrics # NoResult
    /\ env.model_exists /\ env.dataset_exists

\* loading, validation or the extraction of a metric raised
Failed(e) ==
    \/ e.load # "ok"
    \/ e.val # "ok"
    \/ \E x \in {e.box.map50, e.box.map, e.box.mp, e.box.mr, e.box.f1} :
          safe_round(x, DefaultDecimals).tag = "raise"

\* C15: validate_model never propagates an exception of model loading,
\* validation or metric extraction: it then returns a record with an
\* 'error' key and map50, map95, validation_time_seconds and
\* inference_speed_fps all 0.0; a record of a run without failure has no
\* 'error' key.
C15_ErrorRecord ==
    ValidateCalled =>
        /\ metrics.tag = "ok"
        /\ Failed(env) =>
              /\ HasError(metrics.v)
              /\ metrics.v.map50 = Zero
              /\ metrics.v.map95 = Zero
              /\ metrics.v.validation_time_seconds = Zero
              /\ metrics.v.inference_speed_fps = Zero
        /\ ~Failed(env) => ~HasError(metrics.v)

\* the f1 tensor makes safe_round raise RuntimeError inside validate_model
C15_Witness ==
    /\ ValidateCalled
    /\ env.load = "ok" /\ env.val = "ok" /\ env.box = TensorBox
    /\ metrics.tag = "ok"
    /\ HasError(metrics.v)
    /\ metrics.v.error = "RuntimeError"
    /\ metrics.v.map50 = Zero

\* the loop of main has ended
LoopEnded == mpc \in {"write", "done"} \/ (mpc = "loop" /\ idx = total_models)

\* C16: when the loop of main ends, the models dict holds exactly one
\* entry per configured model, valid_models is the number of entries
\* without an 'error' key, and successfully_validated + failed_validations
\* is total_models.
C16_OneEntryPerModel ==
    LoopEnded =>
        /\ DOMAIN models = ConfiguredNames
        /\ valid_models = Cardinality(Succeeded)
        /\ summary # EmptyDict =>
              /\ summary.successfully_validated = valid_models
              /\ summary.total_models = Cardinality(ConfiguredNames)
              /\ summary.successfully_validated + summary.failed_validations
                    = summary.total_models

\* two models validated, one skipped for its missing dataset file
C16_Witness ==
    /\ mpc = "done"
    /\ valid_models = 2
    /\ \E n \in DOMAIN models :
          /\ HasError(models[n])
          /\ models[n].error = "Dataset file not found"
    /\ summary # EmptyDict
    /\ summary.failed_validations = 1

\* C17: whenever main produces a summary, best_map50_model and
\* best_map95_model name a model whose entry has no 'error' key and whose
\* map50 (resp. map95) is the maximum over the successfully validated
\* models; a skipped or failed model is never reported as best.
C17_BestIsValid ==
    summary # EmptyDict =>
        /\ summary.best_map50_model \in Succeeded
        /\ \A n \in Succeeded :
              ~PyGt(models[n].map50, models[summary.best_map50_model].map50)
        /\ summary.best_map95_model \in Succeeded
        /\ \A n \in Succeeded :
              ~PyGt(models[n].map95, models[summary.best_map95_model].map95)

\* the elements of a list
Elements(s) == {s[i] : i \in 1..Len(s)}

\* the sets A, B, C are pairwise disjoint and their union is U
Partition(A, B, C, U) ==
    /\ A \cap B = {} /\ A \cap C = {} /\ B \cap C = {}
    /\ A \cup B \cup C = U

\* C18: in the unsplit branch of prepare_dataset, for every number of
\* collected images, each image is assigned to exactly one of the train,
\* val and test splits: the splits are pairwise disjoint and their union is
\* the whole image list.
C18_SplitsPartition ==
    /\ spc \in {"sliced", "copied"} =>
          /\ Partition(Elements(splits.train), Elements(splits.val),
                       Elements(splits.test), Elements(all_images))
          /\ Len(splits.train) + Len(splits.val) + Len(splits.test)
                = Len(all_images)
          /\ Cardinality(Elements(all_images)) = Cardinality(Elements(
                SelectSeq(dir, LAMBDA f : f.ext \in {"jpg", "png"})))
    /\ spc = "copied" =>
          Partition(copied.train, copied.val, copied.test,
                    {FileName(f) : f \in Elements(all_images)})

\* ten images in reversed order: 7 to train, 2 to val, 1 to test
C18_Witness ==
    /\ spc = "copied"
    /\ n_images = 10
    /\ all_images[1] = File(10, "png")
    /\ Cardinality(copied.train) = 7
    /\ Cardinality(copied.val) = 2
    /\ copied.test = {"img_1.jpg"}

\* C19: the split of n images is 70% train, 20% val, 10% test: train gets
\* floor(0.7 n) images, val gets floor(0.2 n) images and test gets the
\* remaining n - floor(0.7 n) - floor(0.2 n) images, for every n >= 0.
C19_SeventyTwentyTen ==
    spc \in {"sliced", "copied"} =>
        /\ Len(splits.train) = (7 * n_images) \div 10
        /\ Len(splits.val) = (2 * n_images) \div 10
        /\ Len(splits.test)
              = n_images - (7 * n_images) \div 10 - (2 * n_images) \div 10

\* C20: every data.yaml create_data_yaml produces is self-consistent: nc
\* is greater than every class index of the train label files (the largest
\* index + 1, or 1 when there is no label line) and the names list of
\* get_class_names has exactly nc entries, for every dataset name.
C20_YamlConsistent ==
    ypc = "written" =>
        LET found == UNION {{ParseInt(f[k][1]).v.n :
                                k \in {j \in 1..Len(f) : f[j] # <<>>}} :
                            f \in Elements(label_files)}
        IN  /\ \A c \in found : data_yaml.nc > c
            /\ found # {} => data_yaml.nc - 1 \in found
            /\ found = {} => data_yaml.nc = 1
            /\ Len(data_yaml.names) = data_yaml.nc

\* class index 4 in a dataset with three mapped names: nc = 5 and two
\* generic names are appended
C20_Witness ==
    /\ ypc = "written"
    /\ dataset_name = "coal_miner_data2023_yolo"
    /\ data_yaml.nc = 5
    /\ data_yaml.names
          = <<"person", "miner", "equipment", "class_3", "class_4">>

\* the source dataset a general label file was copied from
SourceOf(w) ==
    CHOOSE src \in Elements(sources) :
        src.status = "prepared" /\ datasets[src.dataset_name] = w.source

\* the class indices of the lines of a general label file
IndicesOf(w) == {ParseInt(w.lines[k][1]).v.n : k \in 1..Len(w.lines)}

\* the k-th line of the general label file w has an index below the general
\* nc, and the general name at that index is the short name of the source
\* prefixed to the name the source's data.yaml gives the original index
LineConsistent(w, k) ==
    LET src == SourceOf(w)
        orig == SelectSeq(src.labels[w.split].lines,
                          LAMBDA parts : parts # <<>>)
        oi == ParseInt(orig[k][1]).v.n
        gi == ParseInt(w.lines[k][1]).v.n
    IN  /\ 0 <= gi /\ gi < general_yaml.nc
        /\ 0 <= oi /\ oi < Len(src.data_info.names)
        /\ general_yaml.names[gi + 1]
              = w.source \o "_" \o src.data_info.names[oi + 1]

\* C21: every label line written into the general dataset (train, val and
\* test) has a class index smaller than the general nc, and the general
\* names list at that index is the source dataset's short name prefixed to
\* the label's original class name; so labels of different source datasets
\* never share a class index.
C21_GeneralLabelsConsistent ==
    gpc = "written" =>
        /\ \A w \in general_labels :
              \A k \in 1..Len(w.lines) : LineConsistent(w, k)
        /\ \A w1, w2 \in general_labels :
              w1.source # w2.source => IndicesOf(w1) \cap IndicesOf(w2) = {}

====
